---- MODULE Spec2Model ----
(***************************************************************************)
(* Model of estate_backend.py, a Streamlit script.  Streamlit executes the *)
(* whole script top to bottom once per render cycle (first page load and   *)
(* every later user interaction); names bound by the script do not survive *)
(* from one run to the next.  One variable per script name, one action per *)
(* block of the script, `pc` is the position of the running script.        *)
(*                                                                         *)
(* Units: prices are whole dollars; np.random.uniform(0.9, 1.1) is drawn   *)
(* in percent (90..110), so avg_price and the bar values are in cents;     *)
(* the y-axis limits (factor 1.2 = 12/10) are in tenths of a cent.         *)
(* Distance_to_Center is in tenths of a kilometre.                         *)
(***************************************************************************)
EXTENDS Integers, Sequences, FiniteSets, TLC

VARIABLES pc, cycle, fileState, widgets, pressed, model, load_error,
          input_data, prediction, avg_price, values, ylim, insights,
          screen, predictArgs, predictRaised, draws,
          loadFailedEarlier, predFailedEarlier

vars == <<pc, cycle, fileState, widgets, pressed, model, load_error,
          input_data, prediction, avg_price, values, ylim, insights,
          screen, predictArgs, predictRaised, draws,
          loadFailedEarlier, predFailedEarlier>>

\* ---------------------------------------------------------------- bounds
MaxCycles == 3

\* ------------------------------------------------------ program constants
LocationThreshold == 5
YearThreshold == 2000
DistanceThreshold == 150
SizeThreshold == 800
ULow == 90
UHigh == 110
Headroom == 12

\* ------------------------------------------------------------ input sets
\* Sample values of each sidebar widget, inside the widget's min/max.
Square_Feet_Values == {200, 799, 800, 1500}
Num_Bedrooms_Values == {3}
Num_Bathrooms_Values == {2}
Num_Floors_Values == {1}
Year_Built_Values == {1999, 2000, 2010}
Has_Garden_Values == {0}
Has_Pool_Values == {0, 1}
Garage_Size_Values == {1}
Location_Score_Values == {4, 5, 7}
Distance_to_Center_Values == {50, 150, 151}

FeatureRecords ==
    [Square_Feet : Square_Feet_Values,
     Num_Bedrooms : Num_Bedrooms_Values,
     Num_Bathrooms : Num_Bathrooms_Values,
     Num_Floors : Num_Floors_Values,
     Year_Built : Year_Built_Values,
     Has_Garden : Has_Garden_Values,
     Has_Pool : Has_Pool_Values,
     Garage_Size : Garage_Size_Values,
     Location_Score : Location_Score_Values,
     Distance_to_Center : Distance_to_Center_Values]

\* The value= defaults of the widgets (selectbox defaults to its first option).
DefaultWidgets ==
    [Square_Feet |-> 1500, Num_Bedrooms |-> 3, Num_Bathrooms |-> 2,
     Num_Floors |-> 1, Year_Built |-> 2010, Has_Garden |-> 0, Has_Pool |-> 0,
     Garage_Size |-> 1, Location_Score |-> 7, Distance_to_Center |-> 50]

\* State of the artifact file: loadable, or the failure joblib.load raises.
LoadErrors == {"No such file or directory", "invalid load key"}
FileStates == {"ok"} \cup LoadErrors

\* Outcomes of the opaque model.predict: a price (not validated) or a raise.
Prices == {-100000, 0, 300000, 500000}
PredictErrors == {"feature names mismatch"}

\* Values np.random.uniform(0.9, 1.1) can return, in percent.
UValues == {ULow, 97, 100, 104, UHigh}

\* --------------------------------------------------------------- helpers
Max2(a, b) == IF a >= b THEN a ELSE b

Element(k, t, m, n) == [kind |-> k, text |-> t, msg |-> m, num |-> n]


\* A name the script has not bound yet holds <<>>; a bound name holds <<v>>.

\* ------------------------------------------------------------------ Init
\* First run of the script: widgets at their defaults, nothing clicked yet.
Init ==
    /\ pc = "load"
    /\ cycle = 1
    /\ fileState \in FileStates
    /\ widgets = DefaultWidgets
    /\ pressed = FALSE
    /\ model = "unset"
    /\ load_error = ""
    /\ input_data = <<>>
    /\ prediction = <<>>
    /\ avg_price = <<>>
    /\ values = <<>>
    /\ ylim = <<>>
    /\ insights = <<>>
    /\ screen = <<>>
    /\ predictArgs = <<>>
    /\ predictRaised = <<>>
    /\ draws = <<>>
    /\ loadFailedEarlier = FALSE
    /\ predFailedEarlier = FALSE

\* ------------------------------------------------- lines 10-14: load model
LoadModelOk ==
    /\ pc = "load"
    /\ fileState = "ok"
    /\ model' = "loaded"
    /\ pc' = "setup"
    /\ UNCHANGED <<cycle, fileState, widgets, pressed, load_error, input_data,
                   prediction, avg_price, values, ylim, insights, screen,
                   predictArgs, predictRaised, draws, loadFailedEarlier,
                   predFailedEarlier>>

LoadModelFails ==
    /\ pc = "load"
    /\ fileState \in LoadErrors
    /\ model' = "None"
    /\ load_error' = fileState
    /\ pc' = "setup"
    /\ UNCHANGED <<cycle, fileState, widgets, pressed, input_data,
                   prediction, avg_price, values, ylim, insights, screen,
                   predictArgs, predictRaised, draws, loadFailedEarlier,
                   predFailedEarlier>>

\* ------------------------- lines 19-77: page setup, sidebar inputs, header
\* The sidebar widgets return the current widget state; only the main
\* region is recorded in `screen`.
PageSetup ==
    /\ pc = "setup"
    /\ input_data' = <<widgets>>
    /\ screen' = screen \o
          << Element("title", "Real Estate Price Prediction Dashboard", "", 0),
             Element("write", "intro", "", 0),
             Element("markdown", "---", "", 0),
             Element("subheader", "Prediction Summary", "", 0),
             Element("write", "", "", 0) >>
    /\ pc' = "gate"
    /\ UNCHANGED <<cycle, fileState, widgets, pressed, model, load_error,
                   prediction, avg_price, values, ylim, insights,
                   predictArgs, predictRaised, draws, loadFailedEarlier,
                   predFailedEarlier>>

\* ----------------------------------------- lines 80-81: model is None
ModelErrorElement(err) == Element("error", "Model failed to load", err, 0)

GateModelNone_Continue ==
    /\ pc = "gate"
    /\ model = "None"
    /\ screen' = Append(screen, ModelErrorElement(load_error))
    /\ pc' = IF pressed THEN "predict" ELSE "footer"
    /\ UNCHANGED <<cycle, fileState, widgets, pressed, model, load_error,
                   input_data, prediction, avg_price, values, ylim, insights,
                   predictArgs, predictRaised, draws, loadFailedEarlier,
                   predFailedEarlier>>

GateModelNone ==
    /\ pc = "gate"
    /\ model = "None"
    /\ screen' = Append(screen, ModelErrorElement(load_error))
    /\ pc' = "footer"
    /\ UNCHANGED <<cycle, fileState, widgets, pressed, model, load_error,
                   input_data, prediction, avg_price, values, ylim, insights,
                   predictArgs, predictRaised, draws, loadFailedEarlier,
                   predFailedEarlier>>

\* ------------------------------ line 84: st.sidebar.button("Predict Price")
ButtonClicked_Latched == pressed /\ ~predFailedEarlier

ButtonClicked == pressed

GateButtonPressed ==
    /\ pc = "gate"
    /\ model # "None"
    /\ ButtonClicked
    /\ pc' = "predict"
    /\ UNCHANGED <<cycle, fileState, widgets, pressed, model, load_error,
                   input_data, prediction, avg_price, values, ylim, insights,
                   screen, predictArgs, predictRaised, draws,
                   loadFailedEarlier, predFailedEarlier>>

\* ------------------------------------------- lines 168-169: idle prompt
IdlePrompt == Element("warning", "Enter details and click Predict Price", "", 0)

GateButtonNotPressed_NoPrompt ==
    /\ pc = "gate"
    /\ model # "None"
    /\ ~ButtonClicked
    /\ pc' = "footer"
    /\ UNCHANGED <<cycle, fileState, widgets, pressed, model, load_error,
                   input_data, prediction, avg_price, values, ylim, insights,
                   screen, predictArgs, predictRaised, draws,
                   loadFailedEarlier, predFailedEarlier>>

GateButtonNotPressed ==
    /\ pc = "gate"
    /\ model # "None"
    /\ ~ButtonClicked
    /\ screen' = Append(screen, IdlePrompt)
    /\ pc' = "footer"
    /\ UNCHANGED <<cycle, fileState, widgets, pressed, model, load_error,
                   input_data, prediction, avg_price, values, ylim, insights,
                   predictArgs, predictRaised, draws, loadFailedEarlier,
                   predFailedEarlier>>

\* ------------------------------------------ lines 87-91: model.predict
PredictReturns ==
    /\ pc = "predict"
    /\ \E p \in Prices : prediction' = <<p>>
    /\ predictArgs' = Append(predictArgs, input_data[1])
    /\ pc' = "price"
    /\ UNCHANGED <<cycle, fileState, widgets, pressed, model, load_error,
                   input_data, avg_price, values, ylim, insights, screen,
                   predictRaised, draws, loadFailedEarlier, predFailedEarlier>>

PredictionErrorElement(e) == Element("error", "Prediction failed", e, 0)

PredictRaises_Silent ==
    /\ pc = "predict"
    /\ \E e \in PredictErrors : predictRaised' = <<e>>
    /\ predictArgs' = Append(predictArgs, input_data[1])
    /\ pc' = "done"
    /\ UNCHANGED <<cycle, fileState, widgets, pressed, model, load_error,
                   input_data, prediction, avg_price, values, ylim, insights,
                   screen, draws, loadFailedEarlier, predFailedEarlier>>

\* st.error, then st.stop() ends the script run: nothing below it executes.
PredictRaises ==
    /\ pc = "predict"
    /\ \E e \in PredictErrors :
          /\ predictRaised' = <<e>>
          /\ screen' = Append(screen, PredictionErrorElement(e))
    /\ predictArgs' = Append(predictArgs, input_data[1])
    /\ pc' = "done"
    /\ UNCHANGED <<cycle, fileState, widgets, pressed, model, load_error,
                   input_data, prediction, avg_price, values, ylim, insights,
                   draws, loadFailedEarlier, predFailedEarlier>>

\* ------------------------------------------- lines 93-94: estimated price
\* f"{prediction:,.2f}": the price rounded to cents.
FormatPrice(p) == p * 100

ShowPrice ==
    /\ pc = "price"
    /\ screen' = Append(screen,
          Element("success", "Estimated Price", "", FormatPrice(prediction[1])))
    /\ pc' = "chart"
    /\ UNCHANGED <<cycle, fileState, widgets, pressed, model, load_error,
                   input_data, prediction, avg_price, values, ylim, insights,
                   predictArgs, predictRaised, draws, loadFailedEarlier,
                   predFailedEarlier>>

\* ------------------------------------------------ lines 99-117: the chart
\* prediction * np.random.uniform(0.9, 1.1), u in percent, result in cents.
AvgPrice_Wide(p, u) == p * (u + 5)

AvgPrice(p, u) == p * u

\* values = [prediction, avg_price], in cents.
BarValues(p, avg) == <<p * 100, avg>>

\* ax.set_ylim(0, max(values) * 1.2), in tenths of a cent.  Matplotlib
\* expands identical limits instead of keeping a singular axis.
SetYlim(bottom, top) ==
    IF bottom = top THEN <<bottom - 1, top + 1>> ELSE <<bottom, top>>

Chart ==
    /\ pc = "chart"
    /\ \E u \in UValues :
          /\ draws' = Append(draws, u)
          /\ avg_price' = <<AvgPrice(prediction[1], u)>>
    /\ values' = BarValues(prediction[1], avg_price'[1])
    /\ ylim' = SetYlim(0, Max2(values'[1], values'[2]) * Headroom)
    /\ screen' = screen \o
          << Element("subheader", "Price Comparison Chart", "", 0),
             Element("pyplot", "Predicted vs Benchmark Market Price", "", 0) >>
    /\ pc' = "insights"
    /\ UNCHANGED <<cycle, fileState, widgets, pressed, model, load_error,
                   input_data, prediction, insights, predictArgs,
                   predictRaised, loadFailedEarlier, predFailedEarlier>>

\* --------------------------------------------- lines 122-153: the insights
AppendLocation_Inclusive(ins, score) ==
    IF score <= LocationThreshold
    THEN Append(ins, "below-average-location")
    ELSE Append(ins, "good-location")

AppendLocation(ins, score) ==
    IF score < LocationThreshold
    THEN Append(ins, "below-average-location")
    ELSE Append(ins, "good-location")

AppendPool_NoElse(ins, hasPool) ==
    IF hasPool = 1 THEN Append(ins, "pool-luxury") ELSE ins

AppendPool(ins, hasPool) ==
    IF hasPool = 1
    THEN Append(ins, "pool-luxury")
    ELSE Append(ins, "suggest-pool")

AppendAge(ins, year) ==
    IF year < YearThreshold
    THEN Append(ins, "older-building")
    ELSE Append(ins, "modern-building")

AppendDistance(ins, dist) ==
    IF dist > DistanceThreshold
    THEN Append(ins, "far-from-center")
    ELSE Append(ins, "good-proximity")

AppendSize(ins, sqft) ==
    IF sqft < SizeThreshold
    THEN Append(ins, "small-property")
    ELSE Append(ins, "good-space")

DeriveInsights(w) ==
    AppendSize(
      AppendDistance(
        AppendAge(
          AppendPool(
            AppendLocation(<<>>, w.Location_Score),
            w.Has_Pool),
          w.Year_Built),
        w.Distance_to_Center),
      w.Square_Feet)

\* for tip in insights: st.write(f"- {tip}")
Tips(ins) == [i \in 1..Len(ins) |-> Element("tip", ins[i], "", 0)]

Insights ==
    /\ pc = "insights"
    /\ insights' = DeriveInsights(widgets)
    /\ screen' = (Append(screen,
                     Element("subheader", "Insights & Recommendations", "", 0))
                  \o Tips(insights'))
                 \o << Element("markdown", "---", "", 0) >>
    /\ pc' = "advice"
    /\ UNCHANGED <<cycle, fileState, widgets, pressed, model, load_error,
                   input_data, prediction, avg_price, values, ylim,
                   predictArgs, predictRaised, draws, loadFailedEarlier,
                   predFailedEarlier>>

\* ------------------------------------- lines 160-166: final recommendation
FinalAdvice ==
    /\ pc = "advice"
    /\ screen' = screen \o
          << Element("subheader", "Final Recommendation", "", 0),
             Element("info", "final_message", "", 0) >>
    /\ pc' = "footer"
    /\ UNCHANGED <<cycle, fileState, widgets, pressed, model, load_error,
                   input_data, prediction, avg_price, values, ylim, insights,
                   predictArgs, predictRaised, draws, loadFailedEarlier,
                   predFailedEarlier>>

\* --------------------------------------------------- lines 174-182: footer
FooterElement == Element("markdown", "Built by Oluwaseun Martins", "", 0)

Footer ==
    /\ pc = "footer"
    /\ screen' = screen \o << Element("markdown", "---", "", 0), FooterElement >>
    /\ pc' = "done"
    /\ UNCHANGED <<cycle, fileState, widgets, pressed, model, load_error,
                   input_data, prediction, avg_price, values, ylim, insights,
                   predictArgs, predictRaised, draws, loadFailedEarlier,
                   predFailedEarlier>>

\* ------------------------------------------------------- next render cycle
\* A user interaction reruns the script from line 1: the page is rebuilt,
\* every script name is unbound, the widgets hold what the user entered,
\* and the artifact file is in whatever state it is in by then.
Rerun ==
    /\ pc = "done"
    /\ cycle < MaxCycles
    /\ cycle' = cycle + 1
    /\ widgets' \in FeatureRecords
    /\ pressed' \in BOOLEAN
    /\ fileState' \in FileStates
    /\ pc' = "load"
    /\ model' = "unset"
    /\ load_error' = ""
    /\ input_data' = <<>>
    /\ prediction' = <<>>
    /\ avg_price' = <<>>
    /\ values' = <<>>
    /\ ylim' = <<>>
    /\ insights' = <<>>
    /\ screen' = <<>>
    /\ predictArgs' = <<>>
    /\ predictRaised' = <<>>
    /\ draws' = <<>>
    /\ loadFailedEarlier' = (loadFailedEarlier \/ model = "None")
    /\ predFailedEarlier' = (predFailedEarlier \/ predictRaised # <<>>)

Next ==
    \/ LoadModelOk
    \/ LoadModelFails
    \/ PageSetup
    \/ GateModelNone
    \/ GateButtonPressed
    \/ GateButtonNotPressed
    \/ PredictReturns
    \/ PredictRaises
    \/ ShowPrice
    \/ Chart
    \/ Insights
    \/ FinalAdvice
    \/ Footer
    \/ Rerun

Spec == Init /\ [][Next]_vars

\* ================================================================ claims
Shown(el) == \E i \in 1..Len(screen) : screen[i] = el

KindShown(k) == \E i \in 1..Len(screen) : screen[i].kind = k

IsTip(el) == el.kind = "tip"

TipsShown == SelectSeq(screen, IsTip)

PredictionContent == KindShown("success") \/ KindShown("pyplot") \/ KindShown("tip")

AfterInsights == pc \in {"advice", "footer", "done"} /\ prediction # <<>>

AfterChart == pc \in {"insights", "advice", "footer", "done"} /\ prediction # <<>>

SuccessfulCycleDone ==
    pc = "done" /\ model = "loaded" /\ pressed /\ predictRaised = <<>>

\* C1: in every cycle where the model is loaded, the trigger is pressed and
\* model.predict succeeds, exactly 5 insights are emitted, one per rule, in
\* the order Location, Pool, Age, Distance, Size, and shown in that order.
C1_FiveInsightsInOrder ==
    /\ SuccessfulCycleDone => AfterInsights
    /\ AfterInsights =>
          /\ Len(insights) = 5
          /\ insights[1] \in {"below-average-location", "good-location"}
          /\ insights[2] \in {"pool-luxury", "suggest-pool"}
          /\ insights[3] \in {"older-building", "modern-building"}
          /\ insights[4] \in {"far-from-center", "good-proximity"}
          /\ insights[5] \in {"small-property", "good-space"}
          /\ Len(TipsShown) = 5
          /\ \A i \in 1..5 : TipsShown[i].text = insights[i]

C1_Witness ==
    /\ SuccessfulCycleDone
    /\ Len(insights) = 5
    /\ widgets.Has_Pool = 0
    /\ widgets.Location_Score = 4

\* C2: each rule selects its true-branch theme exactly when its condition
\* holds (location_score < 5, has_pool = 1, year_built < 2000,
\* distance > 15 km, floor_area < 800) and its false-branch theme otherwise;
\* the exact boundaries 5, 2000, 15 km, 800 select the false branch, 4 the
\* true branch, and the default record yields the documented list.
C2_RuleBranches ==
    AfterInsights =>
      /\ insights[1] = (IF widgets.Location_Score < 5
                        THEN "below-average-location" ELSE "good-location")
      /\ insights[2] = (IF widgets.Has_Pool = 1
                        THEN "pool-luxury" ELSE "suggest-pool")
      /\ insights[3] = (IF widgets.Year_Built < 2000
                        THEN "older-building" ELSE "modern-building")
      /\ insights[4] = (IF widgets.Distance_to_Center > 150
                        THEN "far-from-center" ELSE "good-proximity")
      /\ insights[5] = (IF widgets.Square_Feet < 800
                        THEN "small-property" ELSE "good-space")
      /\ (widgets.Location_Score = 5 => insights[1] = "good-location")
      /\ (widgets.Location_Score = 4 => insights[1] = "below-average-location")
      /\ (widgets.Year_Built = 2000 => insights[3] = "modern-building")
      /\ (widgets.Distance_to_Center = 150 => insights[4] = "good-proximity")
      /\ (widgets.Square_Feet = 800 => insights[5] = "good-space")
      /\ (widgets = DefaultWidgets =>
             insights = <<"good-location", "suggest-pool", "modern-building",
                          "good-proximity", "good-space">>)

C2_Witness ==
    /\ AfterInsights
    /\ widgets.Location_Score = 5
    /\ widgets.Year_Built = 2000
    /\ widgets.Distance_to_Center = 150
    /\ widgets.Square_Feet = 800
    /\ insights = <<"good-location", "pool-luxury", "modern-building",
                    "good-proximity", "good-space">>

\* C3: if model loading failed, no call to model.predict is made in that
\* cycle whatever the trigger's state, and the finished page shows the
\* ModelUnavailable error carrying the load failure's message.
C3_LoadFailedNoPredict ==
    model = "None" =>
      /\ predictArgs = <<>>
      /\ predictRaised = <<>>
      /\ prediction = <<>>
      /\ pc # "predict"
      /\ load_error = fileState
      /\ load_error \in LoadErrors
      /\ (pc \in {"footer", "done"} =>
             Shown(Element("error", "Model failed to load", fileState, 0)))

C3_Witness ==
    /\ model = "None"
    /\ pressed
    /\ pc = "done"
    /\ Shown(Element("error", "Model failed to load", "invalid load key", 0))

\* C4: if the model loaded, the trigger is pressed and model.predict raises,
\* the cycle shows the PredictionFailed error message and renders no
\* estimated price, no chart and no insights.
C4_PredictFailedShowsError ==
    predictRaised # <<>> =>
      /\ model = "loaded"
      /\ pressed
      /\ Shown(Element("error", "Prediction failed", predictRaised[1], 0))
      /\ ~PredictionContent
      /\ prediction = <<>>
      /\ insights = <<>>
      /\ values = <<>>

C4_Witness ==
    /\ predictRaised # <<>>
    /\ pc = "done"
    /\ KindShown("error")
    /\ ~KindShown("pyplot")

\* C5 (as claimed): once a load attempt has failed, every later cycle stays
\* unavailable: the model is never loaded again and predict is never called.
C5_LoadFailurePermanent ==
    loadFailedEarlier => (model # "loaded" /\ predictArgs = <<>>)

\* C6 (as claimed): a cycle in which predict raised still renders the footer.
C6_FooterAfterPredictionFailed ==
    (pc = "done" /\ predictRaised # <<>>) => Shown(FooterElement)

\* C7: a failed prediction affects its own cycle only: whatever failed
\* before, a cycle with the model loaded and the trigger pressed calls
\* model.predict once with the current Feature Record, and when that call
\* succeeds the cycle ends showing the result.
ShowingResult ==
    /\ Shown(Element("success", "Estimated Price", "", prediction[1] * 100))
    /\ KindShown("pyplot")
    /\ Len(TipsShown) = 5
    /\ Shown(Element("info", "final_message", "", 0))

C7_RetryAfterPredictionFailed ==
    (pc = "done" /\ model = "loaded" /\ pressed) =>
      /\ predictArgs = <<widgets>>
      /\ (predictRaised = <<>> => prediction # <<>> /\ ShowingResult)

C7_Witness ==
    /\ predFailedEarlier
    /\ pc = "done"
    /\ prediction # <<>>
    /\ predictArgs = <<widgets>>
    /\ ShowingResult

\* C8 (as claimed): the Predicted Price bar equals the returned value and
\* the Benchmark Price bar lies in [0.9 * predicted, 1.1 * predicted].
C8_BenchmarkInInterval ==
    AfterChart =>
      /\ values[1] = prediction[1] * 100
      /\ 90 * prediction[1] <= values[2]
      /\ values[2] <= 110 * prediction[1]

\* C8 (amended): the Predicted Price bar equals the returned value and the
\* Benchmark Price bar is within 10% of it in magnitude: between 0.9 and
\* 1.1 times it, which is [0.9p, 1.1p] for p >= 0 and [1.1p, 0.9p] for
\* p < 0; the benchmark is the product with the one draw of this cycle.
C8_BenchmarkWithinTenPercent ==
    AfterChart =>
      /\ values[1] = prediction[1] * 100
      /\ values[2] = avg_price[1]
      /\ (prediction[1] >= 0 =>
             90 * prediction[1] <= values[2] /\ values[2] <= 110 * prediction[1])
      /\ (prediction[1] < 0 =>
             110 * prediction[1] <= values[2] /\ values[2] <= 90 * prediction[1])
      /\ Len(draws) = 1
      /\ avg_price[1] = prediction[1] * draws[1]

C8_Witness ==
    /\ AfterChart
    /\ prediction[1] = 500000
    /\ values = <<50000000, 55000000>>

\* C9 (as claimed): a cycle without a trigger press, and a cycle with the
\* model unavailable, ends showing the idle prompt and no prediction content.
C9_IdlePromptWhenIdleOrUnavailable ==
    (pc = "done" /\ (~pressed \/ model = "None")) =>
      /\ Shown(IdlePrompt)
      /\ ~PredictionContent

\* C9 (amended): a cycle with the model loaded and no trigger press ends
\* showing the idle prompt; a cycle with the model unavailable ends showing
\* the load error and no idle prompt; neither ever shows prediction content,
\* so no result of an earlier cycle is shown.
C9_IdleOrErrorNoPrediction ==
    /\ (~pressed \/ model # "loaded") => ~PredictionContent
    /\ (pc = "done" /\ model = "loaded" /\ ~pressed) =>
          Shown(IdlePrompt) /\ ~KindShown("error")
    /\ (pc = "done" /\ model = "None") =>
          KindShown("error") /\ ~Shown(IdlePrompt)

C9_Witness ==
    /\ cycle > 1
    /\ pc = "done"
    /\ model = "loaded"
    /\ ~pressed
    /\ Shown(IdlePrompt)
    /\ ~PredictionContent

\* C10 (as claimed): for every value predict returns, the y-axis upper bound
\* is strictly above the lower bound 0 and both bars lie between the bounds.
C10_AxisContainsBars ==
    AfterChart =>
      /\ ylim[2] > ylim[1]
      /\ ylim[1] <= 0
      /\ \A i \in 1..2 : ylim[1] <= values[i] * 10 /\ values[i] * 10 <= ylim[2]

====
